---- MODULE Spec2Model ----
(***************************************************************************)
(* Model of the AI phone agent (src/app.js): the slot extractor            *)
(* (CallAssistant.extractInformation), the session store helpers           *)
(* (getOrCreateSession, getSession, updateSession, saveCustomerData), the  *)
(* SMS side effect (sendSteakInstructions) and the two webhook handlers    *)
(* (POST /voice, POST /gather).  Every await of a handler is one step, so  *)
(* that handlers of different requests interleave at the awaits, as they   *)
(* do on the Node.js event loop.                                           *)
(***************************************************************************)
EXTENDS Integers, Sequences, FiniteSets, TLC

VARIABLES
    sessions,      \* table call_sessions: sequence of rows, index = id
    customers,     \* table customers: sequence of rows, phone_number UNIQUE
    sms,           \* messages accepted by twilioClient.messages.create
    req,           \* in-flight webhook requests, one record per slot
    log,           \* per call: the finished /gather requests, in order
    greeted,       \* per call: the finished /voice requests, in order
    faults,        \* collaborator failures injected so far
    conversation,  \* extractor harness: the transcript handed to the extractor
    nfrag,         \* extractor harness: the number of fragments it was built from
    info           \* extractor harness: extractInformation(conversation)

vars ==
    <<sessions, customers, sms, req, log, greeted, faults, conversation, nfrag,
      info>>

(***************************************************************************)
(* Bounds of the model.                                                    *)
(***************************************************************************)
MaxTurns == 3
MaxVoice == 2
MaxFaults == 1
MaxFragments == 3

(***************************************************************************)
(* Strings.  A JavaScript string is a TLA+ string; SubSeq(s, i, i) is its  *)
(* i-th character.                                                         *)
(***************************************************************************)
UpperChars == "ABCDEFGHIJKLMNOPQRSTUVWXYZ"
LowerChars == "abcdefghijklmnopqrstuvwxyz"
DigitChars == "0123456789_"

CharAt(s, i) == SubSeq(s, i, i)

CharsOf(s) == { CharAt(s, i) : i \in 1..Len(s) }

\* String.prototype.includes
Includes(s, pat) ==
    \E i \in 1..(Len(s) - Len(pat) + 1) : SubSeq(s, i, i + Len(pat) - 1) = pat

\* one character of String.prototype.toLowerCase
LowerOf ==
    [c \in CharsOf(UpperChars) |->
        CharAt(LowerChars, CHOOSE i \in 1..26 : CharAt(UpperChars, i) = c)]

LowerChar(c) == IF c \in DOMAIN LowerOf THEN LowerOf[c] ELSE c

RECURSIVE LowerFrom(_, _)
LowerFrom(s, i) ==
    IF i > Len(s) THEN "" ELSE LowerChar(CharAt(s, i)) \o LowerFrom(s, i + 1)

toLowerCase(s) == LowerFrom(s, 1)

\* the regular expression class \w
WordChars == CharsOf(UpperChars) \cup CharsOf(LowerChars) \cup CharsOf(DigitChars)

IsWordChar(c) == c \in WordChars

\* the end of the greedy \w+ that starts at position i (i - 1 when empty)
RECURSIVE WordEnd(_, _)
WordEnd(s, i) ==
    IF i <= Len(s) /\ IsWordChar(CharAt(s, i)) THEN WordEnd(s, i + 1) ELSE i - 1

\* the null of JavaScript
Null == "<null>"

(***************************************************************************)
(* CallAssistant.extractInformation                                        *)
(***************************************************************************)
\* the cue phrases of namePatterns, each followed by the group (\w+); the
\* flag i makes the match case-insensitive
namePatterns == <<"my name is ", "i'm ", "this is ">>

colors ==
    <<"red", "blue", "green", "yellow", "purple", "orange", "pink", "black",
      "white", "brown">>

steakPrefs == <<"rare", "medium rare", "medium well", "medium", "well done">>

Min(S) == CHOOSE x \in S : \A y \in S : x <= y

Max(S) == CHOOSE x \in S : \A y \in S : y <= x

\* a string as the array of its characters
Chars(s) == <<>> \o [i \in 1..Len(s) |-> CharAt(s, i)]

\* the characters of s.toLowerCase()
LowerCaseChars(s) == <<>> \o [i \in 1..Len(s) |-> LowerChar(CharAt(s, i))]

\* the character arrays of the patterns and of the two vocabularies
PatternChars ==
    [p \in { namePatterns[k] : k \in 1..Len(namePatterns) }
            \cup { colors[k] : k \in 1..Len(colors) }
            \cup { steakPrefs[k] : k \in 1..Len(steakPrefs) } |-> Chars(p)]

\* pat occurs in the character array cs at position i
OccursAt(cs, pat, i) ==
    \A j \in 1..Len(pat) : cs[i + j - 1] = PatternChars[pat][j]

\* String.prototype.includes, on the character array of the string
IncludesChars(cs, pat) == \E i \in 1..(Len(cs) - Len(pat) + 1) : OccursAt(cs, pat, i)

\* the positions at which /<cue>(\w+)/i matches in s: the cue, compared without
\* regard to case (low holds s in lower case), and then a word character
MatchPositions(s, low, cue) ==
    { i \in 1..(Len(s) - Len(cue)) :
        OccursAt(low, cue, i) /\ IsWordChar(CharAt(s, i + Len(cue))) }

\* the group (\w+) of the match at position p
Group(s, p, cue) == SubSeq(s, p + Len(cue), WordEnd(s, p + Len(cue)))

\* a matcher that returns the group of the rightmost match
MatchRightmost(s, low, cue) ==
    IF MatchPositions(s, low, cue) = {} THEN Null
    ELSE Group(s, Max(MatchPositions(s, low, cue)), cue)

\* conversation.match(pattern): match[1] of the leftmost match, or null
Match(s, low, cue) ==
    IF MatchPositions(s, low, cue) = {} THEN Null
    ELSE Group(s, Min(MatchPositions(s, low, cue)), cue)

\* for (const pattern of namePatterns): the first pattern that matches decides
RECURSIVE NameFrom(_, _, _)
NameFrom(s, low, k) ==
    IF k > Len(namePatterns) THEN Null
    ELSE IF Match(s, low, namePatterns[k]) # Null
         THEN Match(s, low, namePatterns[k])
         ELSE NameFrom(s, low, k + 1)

ExtractName(s, low) == NameFrom(s, low, 1)

\* for (const word of list): the first word that text includes decides
RECURSIVE FirstIncluded(_, _, _)
FirstIncluded(text, list, k) ==
    IF k > Len(list) THEN Null
    ELSE IF IncludesChars(text, list[k]) THEN list[k]
         ELSE FirstIncluded(text, list, k + 1)

\* a colour scan that runs through the vocabulary from its end
ExtractColorLastListed(text) ==
    FirstIncluded(text, [k \in 1..Len(colors) |-> colors[Len(colors) + 1 - k]], 1)

ExtractColor(text) == FirstIncluded(text, colors, 1)

\* a vocabulary scan that tries the bare word "medium" before the phrases
ExtractSteakBareFirst(text) ==
    FirstIncluded(text, <<"rare", "medium", "medium rare", "medium well", "well done">>, 1)

ExtractSteak(text) == FirstIncluded(text, steakPrefs, 1)

Fields == {"name", "favoriteColor", "steakPreference"}

\* the object info: only the fields that were found are present
InfoOf(all) == [f \in { g \in Fields : all[g] # Null } |-> all[f]]

\* text is conversation.toLowerCase(), held as its characters; the name
\* patterns run on conversation itself, the two vocabularies on text
extractInformation(s) ==
    CHOOSE i \in { InfoOf([name |-> ExtractName(s, text),
                           favoriteColor |-> ExtractColor(text),
                           steakPreference |-> ExtractSteak(text)]) :
                   text \in {LowerCaseChars(s)} } : TRUE

(***************************************************************************)
(* Static data and texts of the handlers.                                  *)
(***************************************************************************)
steakTemperatures ==
    [p \in {"rare", "medium rare", "medium", "medium well", "well done"} |->
        CASE p = "rare" -> [temp |-> "120-125F", time |-> "2-3 minutes per side"]
          [] p = "medium rare" -> [temp |-> "130-135F", time |-> "3-4 minutes per side"]
          [] p = "medium" -> [temp |-> "135-145F", time |-> "4-5 minutes per side"]
          [] p = "medium well" -> [temp |-> "145-155F", time |-> "5-6 minutes per side"]
          [] OTHER -> [temp |-> "155F+", time |-> "6+ minutes per side"]]

Greeting == "Hello! I'm calling to collect some quick information."

Apology == "I'm sorry, I'm having trouble processing that. Let me try again."

Closing(name) == "Perfect! Thanks " \o name \o ". Have a great day!"

\* JSON.stringify and JSON.parse of the two session columns: the columns hold
\* text, the handlers work on the parsed value
JSONstringify(v) == [json |-> v]

JSONparse(t) == t.json

\* no slicing: the whole history
WholeHistory(h, n) == h

\* Array.prototype.slice(-n)
SliceLast(h, n) == IF Len(h) <= n THEN h ELSE SubSeq(h, Len(h) - n + 1, Len(h))

\* conversationHistory.map(msg => msg.content).join(' ')
RECURSIVE JoinContents(_)
JoinContents(h) ==
    IF Len(h) = 0 THEN ""
    ELSE IF Len(h) = 1 THEN h[1].content
    ELSE h[1].content \o " " \o JoinContents(Tail(h))

\* a transcript made of the newest message only
LatestContent(h) == IF Len(h) = 0 THEN "" ELSE h[Len(h)].content

fullConversation(h) == JoinContents(h)

\* a completeness test that looks at the name only
HasName(i) == "name" \in DOMAIN i /\ i["name"] # ""

\* info.f: the value of the property, or undefined
Property(i, f) == IF f \in DOMAIN i THEN i[f] ELSE Null

\* extractedInfo.name && extractedInfo.favoriteColor && extractedInfo.steakPreference
\* (a field that is present holds a non-empty string)
HasAllInfo(i) == \A f \in Fields : f \in DOMAIN i /\ i[f] # ""

(***************************************************************************)
(* The database.                                                           *)
(***************************************************************************)
\* SELECT * FROM call_sessions WHERE call_sid = ?
SessionRows(c) == { i \in 1..Len(sessions) : sessions[i].call_sid = c }

\* db.get: the first row of the result, or undefined
Undefined == [undefined |-> TRUE]

SelectSession(c) ==
    IF SessionRows(c) = {} THEN Undefined ELSE sessions[Min(SessionRows(c))]

NewSessionRow(c, p) ==
    [call_sid |-> c, phone_number |-> p,
     conversation_state |-> JSONstringify(<<>>),
     collected_data |-> JSONstringify(<<>>)]

\* an UPDATE without the WHERE clause
UpdatedAllSessions(c, h, i) ==
    [k \in 1..Len(sessions) |->
        [sessions[k] EXCEPT !.conversation_state = JSONstringify(h),
                            !.collected_data = JSONstringify(i)]]

\* an UPDATE that appends the last two entries of h to what the row holds
MergedSessions(c, h, i) ==
    [k \in 1..Len(sessions) |->
        IF sessions[k].call_sid = c
        THEN [sessions[k] EXCEPT
                !.conversation_state =
                    JSONstringify(JSONparse(@) \o SubSeq(h, Len(h) - 1, Len(h))),
                !.collected_data = JSONstringify(i)]
        ELSE sessions[k]]

\* an UPDATE that sets conversation_state and leaves collected_data
UpdatedHistoryOnly(c, h, i) ==
    [k \in 1..Len(sessions) |->
        IF sessions[k].call_sid = c
        THEN [sessions[k] EXCEPT !.conversation_state = JSONstringify(h)]
        ELSE sessions[k]]

\* UPDATE call_sessions SET conversation_state = ?, collected_data = ? WHERE call_sid = ?
UpdatedSessions(c, h, i) ==
    [k \in 1..Len(sessions) |->
        IF sessions[k].call_sid = c
        THEN [sessions[k] EXCEPT !.conversation_state = JSONstringify(h),
                                 !.collected_data = JSONstringify(i)]
        ELSE sessions[k]]

\* the rows of a customers table whose phone_number is not p
RECURSIVE WithoutPhone(_, _)
WithoutPhone(rows, p) ==
    IF rows = <<>> THEN <<>>
    ELSE IF rows[1].phone_number = p THEN WithoutPhone(Tail(rows), p)
    ELSE <<rows[1]>> \o WithoutPhone(Tail(rows), p)

\* a plain INSERT INTO customers
InsertedCustomers(p, i) ==
    Append(customers,
           [phone_number |-> p, name |-> Property(i, "name"),
            favorite_color |-> Property(i, "favoriteColor"),
            steak_preference |-> Property(i, "steakPreference")])

\* INSERT OR REPLACE INTO customers: the row that holds the same phone_number
\* (UNIQUE) is deleted, the new row is inserted
\* a property that info does not have is bound as NULL
UpsertedCustomers(p, i) ==
    Append(WithoutPhone(customers, p),
           [phone_number |-> p, name |-> Property(i, "name"),
            favorite_color |-> Property(i, "favoriteColor"),
            steak_preference |-> Property(i, "steakPreference")])

\* the text message of sendSteakInstructions
SteakMessage(p, i) ==
    LET key == toLowerCase(i.steakPreference)
        tempInfo == IF key \in DOMAIN steakTemperatures
                    THEN steakTemperatures[key] ELSE steakTemperatures["medium"]
    IN [to |-> p, name |-> i.name, favoriteColor |-> i.favoriteColor,
        steakPreference |-> i.steakPreference,
        temp |-> tempInfo.temp, time |-> tempInfo.time]

(***************************************************************************)
(* Requests.  A slot of req holds one webhook request between its arrival  *)
(* and its response; pc is the await the handler is suspended at.          *)
(***************************************************************************)
AllCalls == {"CA1", "CA2"}

Reqs == {1, 2}

NoReply == [sent |-> FALSE, say |-> Null, gather |-> FALSE, hangup |-> FALSE]

Reply(text, again, bye) ==
    [sent |-> TRUE, say |-> text, gather |-> again, hangup |-> bye]

IdleReq ==
    [kind |-> "idle", pc |-> "idle", callSid |-> Null, from |-> Null,
     speech |-> "", session |-> Undefined, conversationHistory |-> <<>>,
     context |-> <<>>, aiResponse |-> Null, extractedInfo |-> <<>>,
     fault |-> "none", smsFailed |-> FALSE, trace |-> <<>>,
     before |-> Undefined, outcome |-> Null, reply |-> NoReply]

\* what the store holds for a call: the row db.get returns for it
Persisted(c) ==
    IF SessionRows(c) = {} THEN Undefined
    ELSE [history |-> JSONparse(SelectSession(c).conversation_state),
          partialRecord |-> JSONparse(SelectSession(c).collected_data)]

InFlight(kind) == { r \in Reqs : req[r].kind = kind }

Done(kind) == IF kind = "voice" THEN greeted ELSE log

\* the requests of a kind that have arrived so far
Started(kind) ==
    Cardinality(InFlight(kind))
      + Cardinality(UNION { { <<c, i>> : i \in 1..Len(Done(kind)[c]) } : c \in AllCalls })

\* a request is taken by the first free slot
FreeSlot(r) == req[r].pc = "idle" /\ \A q \in Reqs : req[q].pc = "idle" => r <= q

\* the handler has run to its end: the request leaves its slot
Finish(r, rec) ==
    /\ IF rec.kind = "voice"
       THEN /\ greeted' = [greeted EXCEPT
                             ![rec.callSid] = Append(@, [rec EXCEPT !.pc = "done"])]
            /\ UNCHANGED log
       ELSE /\ log' = [log EXCEPT
                         ![rec.callSid] = Append(@, [rec EXCEPT !.pc = "done"])]
            /\ UNCHANGED greeted
    /\ req' = [req EXCEPT ![r] = IdleReq]

CanFail == faults < MaxFaults

NoFault == UNCHANGED faults

Fault == CanFail /\ faults' = faults + 1

Harness == <<conversation, nfrag, info>>

(***************************************************************************)
(* POST /voice                                                             *)
(***************************************************************************)
VoiceArrive(r, c, p) ==
    /\ FreeSlot(r)
    /\ Started("voice") < MaxVoice
    /\ req' = [req EXCEPT ![r] =
                 [IdleReq EXCEPT !.kind = "voice", !.pc = "select",
                                 !.callSid = c, !.from = p]]
    /\ UNCHANGED <<sessions, customers, sms, log, greeted, faults, Harness>>

VoiceGreets(rq) ==
    [rq EXCEPT !.outcome = "Greeted", !.reply = Reply(Greeting, TRUE, FALSE)]

\* a SELECT callback that issues the INSERT whatever the SELECT returned
VoiceSelectThenInsert(r) ==
    /\ req[r].kind = "voice" /\ req[r].pc = "select"
    /\ req' = [req EXCEPT ![r].pc = "insert"]
    /\ NoFault
    /\ UNCHANGED <<sessions, customers, sms, log, greeted, Harness>>

\* getOrCreateSession, the SELECT: the row exists and the handler answers, or
\* it does not and the INSERT is issued
VoiceSelect(r) ==
    /\ req[r].kind = "voice" /\ req[r].pc = "select"
    /\ IF SessionRows(req[r].callSid) # {}
       THEN Finish(r, VoiceGreets([req[r] EXCEPT
                                     !.session = SelectSession(req[r].callSid)]))
       ELSE /\ req' = [req EXCEPT ![r].pc = "insert"]
            /\ UNCHANGED <<log, greeted>>
    /\ NoFault
    /\ UNCHANGED <<sessions, customers, sms, Harness>>

\* the rejection of getOrCreateSession is not caught by the handler: no
\* response is sent
VoiceRejected(r, what) ==
    /\ Fault
    /\ Finish(r, [req[r] EXCEPT !.fault = what, !.outcome = "Unhandled"])
    /\ UNCHANGED <<sessions, customers, sms, Harness>>

VoiceSelectFail(r) ==
    /\ req[r].kind = "voice" /\ req[r].pc = "select"
    /\ VoiceRejected(r, "getOrCreateSession")

\* getOrCreateSession, the INSERT
VoiceInsert(r) ==
    /\ req[r].kind = "voice" /\ req[r].pc = "insert"
    /\ sessions' = Append(sessions, NewSessionRow(req[r].callSid, req[r].from))
    /\ Finish(r, VoiceGreets([req[r] EXCEPT
                 !.session = NewSessionRow(req[r].callSid, req[r].from),
                 !.trace = Append(@, "insert")]))
    /\ NoFault
    /\ UNCHANGED <<customers, sms, Harness>>

VoiceInsertFail(r) ==
    /\ req[r].kind = "voice" /\ req[r].pc = "insert"
    /\ VoiceRejected(r, "getOrCreateSession")

(***************************************************************************)
(* POST /gather                                                            *)
(***************************************************************************)
GatherRequest(r, c, p, u) ==
    /\ FreeSlot(r)
    /\ req' = [req EXCEPT ![r] =
                 [IdleReq EXCEPT !.kind = "gather", !.pc = "getSession",
                                 !.callSid = c, !.from = p, !.speech = u,
                                 !.before = Persisted(c)]]
    /\ UNCHANGED <<sessions, customers, sms, log, greeted, faults, Harness>>

GatherArrive(r, c, p, u) ==
    /\ Started("gather") < MaxTurns
    /\ GatherRequest(r, c, p, u)

\* the catch block: the apology and another gather
Caught(rq, what) ==
    [rq EXCEPT !.fault = what, !.outcome = "Failed",
               !.reply = Reply(Apology, TRUE, FALSE)]

\* a variant of the catch block that also stores what the handler holds
GatherFailsStoring(r, what) ==
    /\ Finish(r, Caught(req[r], what))
    /\ sessions' = UpdatedSessions(req[r].callSid,
                                   Append(req[r].conversationHistory,
                                          [role |-> "user", content |-> req[r].speech]),
                                   req[r].extractedInfo)
    /\ UNCHANGED <<customers, sms, Harness>>

GatherFails(r, what) ==
    /\ Finish(r, Caught(req[r], what))
    /\ UNCHANGED <<sessions, customers, sms, Harness>>

\* getSession resolves: with undefined, session.conversation_state throws in
\* the try block; with a row, the history is parsed and the utterance pushed
GetSession(r) ==
    /\ req[r].kind = "gather" /\ req[r].pc = "getSession"
    /\ NoFault
    /\ IF SessionRows(req[r].callSid) = {}
       THEN GatherFails(r, "noSession")
       ELSE /\ req' = [req EXCEPT
                 ![r].pc = "generate",
                 ![r].session = SelectSession(req[r].callSid),
                 ![r].conversationHistory =
                     Append(JSONparse(SelectSession(req[r].callSid).conversation_state),
                            [role |-> "user", content |-> req[r].speech])]
            /\ UNCHANGED <<sessions, customers, sms, log, greeted, Harness>>

GetSessionFail(r) ==
    /\ req[r].kind = "gather" /\ req[r].pc = "getSession"
    /\ Fault
    /\ GatherFails(r, "getSession")

\* generateResponse resolves with text: the reply is pushed and the whole
\* conversation goes through the extractor
Generate(r, text) ==
    /\ req[r].kind = "gather" /\ req[r].pc = "generate"
    /\ NoFault
    /\ LET h == Append(req[r].conversationHistory,
                       [role |-> "assistant", content |-> text])
       IN req' = [req EXCEPT
            ![r].pc = "update",
            ![r].context = SliceLast(req[r].conversationHistory, 6)
                             \o <<[role |-> "user", content |-> req[r].speech]>>,
            ![r].aiResponse = text,
            ![r].conversationHistory = h,
            ![r].extractedInfo = extractInformation(fullConversation(h))]
    /\ UNCHANGED <<sessions, customers, sms, log, greeted, Harness>>

GenerateFail(r) ==
    /\ req[r].kind = "gather" /\ req[r].pc = "generate"
    /\ Fault
    /\ GatherFails(r, "generateResponse")

\* updateSession resolves; then the completeness test
UpdateSession(r) ==
    /\ req[r].kind = "gather" /\ req[r].pc = "update"
    /\ NoFault
    /\ sessions' = UpdatedSessions(req[r].callSid, req[r].conversationHistory,
                                   req[r].extractedInfo)
    /\ IF HasAllInfo(req[r].extractedInfo)
       THEN /\ req' = [req EXCEPT ![r].pc = "save",
                                  ![r].trace = Append(@, "updateSession")]
            /\ UNCHANGED <<log, greeted>>
       ELSE Finish(r, [req[r] EXCEPT
                 !.trace = Append(@, "updateSession"),
                 !.outcome = "Continue",
                 !.reply = Reply(req[r].aiResponse, TRUE, FALSE)])
    /\ UNCHANGED <<customers, sms, Harness>>

UpdateSessionFail(r) ==
    /\ req[r].kind = "gather" /\ req[r].pc = "update"
    /\ Fault
    /\ GatherFails(r, "updateSession")

SaveCustomerData(r) ==
    /\ req[r].kind = "gather" /\ req[r].pc = "save"
    /\ NoFault
    /\ customers' = UpsertedCustomers(req[r].from, req[r].extractedInfo)
    /\ req' = [req EXCEPT ![r].pc = "notify",
                          ![r].trace = Append(@, "saveCustomerData")]
    /\ UNCHANGED <<sessions, sms, log, greeted, Harness>>

SaveCustomerDataFail(r) ==
    /\ req[r].kind = "gather" /\ req[r].pc = "save"
    /\ Fault
    /\ GatherFails(r, "saveCustomerData")

\* a closing branch that says the closing message and gathers again
CompletesWithoutHangup(rq) ==
    [rq EXCEPT !.trace = Append(@, "sendSteakInstructions"),
               !.outcome = "Complete",
               !.reply = Reply(Closing(rq.extractedInfo.name), TRUE, FALSE)]

\* the closing message and the hangup
Completes(rq) ==
    [rq EXCEPT !.trace = Append(@, "sendSteakInstructions"),
               !.outcome = "Complete",
               !.reply = Reply(Closing(rq.extractedInfo.name), FALSE, TRUE)]

\* sendSteakInstructions: the message is accepted
SendSteakInstructions(r) ==
    /\ req[r].kind = "gather" /\ req[r].pc = "notify"
    /\ NoFault
    /\ sms' = Append(sms, SteakMessage(req[r].from, req[r].extractedInfo))
    /\ Finish(r, Completes(req[r]))
    /\ UNCHANGED <<sessions, customers, Harness>>

\* a variant in which the error of messages.create reaches the handler's catch
SendSteakInstructionsThrows(r) ==
    /\ req[r].kind = "gather" /\ req[r].pc = "notify"
    /\ Fault
    /\ GatherFails(r, "sendSteakInstructions")

\* sendSteakInstructions: messages.create fails, the error is logged there
SendSteakInstructionsFail(r) ==
    /\ req[r].kind = "gather" /\ req[r].pc = "notify"
    /\ Fault
    /\ Finish(r, Completes([req[r] EXCEPT !.smsFailed = TRUE]))
    /\ UNCHANGED <<sessions, customers, sms, Harness>>

(***************************************************************************)
(* The extractor on its own: transcripts are built from fragments, joined  *)
(* with a space as the /gather handler joins the messages.                 *)
(***************************************************************************)
Fragments ==
    {"my name is Ana", "my name is Bob", "my name is Anabel", "I'm Cy",
     "this is Di", "Medium Rare", "medium rare", "medium well", "blue", "red",
     "brown"}

ExtractInit ==
    /\ conversation = ""
    /\ nfrag = 0
    /\ info = extractInformation("")

\* one more message is joined to the transcript and the extractor runs again
Say(f) ==
    /\ nfrag < MaxFragments
    /\ conversation' = (IF nfrag = 0 THEN f ELSE conversation \o " " \o f)
    /\ nfrag' = nfrag + 1
    /\ info' = extractInformation(conversation')
    /\ UNCHANGED <<sessions, customers, sms, req, log, greeted, faults>>

ExtractNext == \E f \in Fragments : Say(f)

(***************************************************************************)
(* The system: calls, their callers, what callers say and what the         *)
(* generation service answers.                                             *)
(***************************************************************************)
CallerOf == [c \in AllCalls |-> IF c = "CA1" THEN "+15550001" ELSE "+15550002"]

Utterances == {"Hi, my name is Sam", "I like blue", "Medium well please"}

Replies == {"Okay.", "Rare or medium?"}

\* the telephony service sends the next utterance of a call only after the
\* response to the previous one
NoTurnInFlight(c) == \A r \in Reqs : ~(req[r].kind = "gather" /\ req[r].callSid = c)

StoreInit ==
    /\ sessions = <<>>
    /\ customers = <<>>
    /\ sms = <<>>
    /\ req = [r \in Reqs |-> IdleReq]
    /\ log = [c \in AllCalls |-> <<>>]
    /\ greeted = [c \in AllCalls |-> <<>>]
    /\ faults = 0

Init == StoreInit /\ ExtractInit

Step(r, replies) ==
    \/ VoiceSelect(r)
    \/ VoiceSelectFail(r)
    \/ VoiceInsert(r)
    \/ VoiceInsertFail(r)
    \/ GetSession(r)
    \/ GetSessionFail(r)
    \/ \E text \in replies : Generate(r, text)
    \/ GenerateFail(r)
    \/ UpdateSession(r)
    \/ UpdateSessionFail(r)
    \/ SaveCustomerData(r)
    \/ SaveCustomerDataFail(r)
    \/ SendSteakInstructions(r)
    \/ SendSteakInstructionsFail(r)

\* the calls of the main specification
Calls == {"CA1"}

\* the telephony service announces a call once
NotAnnounced(c) == greeted[c] = <<>> /\ \A r \in Reqs : ~(req[r].kind = "voice" /\ req[r].callSid = c)

Next ==
    \/ \E r \in Reqs, c \in Calls : NotAnnounced(c) /\ VoiceArrive(r, c, CallerOf[c])
    \/ \E r \in Reqs, c \in Calls, u \in Utterances :
          NoTurnInFlight(c) /\ GatherArrive(r, c, CallerOf[c], u)
    \/ \E r \in Reqs : Step(r, Replies)

Spec == Init /\ [][Next]_vars

\* the extractor alone, on transcripts of up to MaxFragments fragments
SpecExtract == Init /\ [][ExtractNext]_vars

\* call starts that the telephony service delivers more than once: the /voice
\* webhook of a call may arrive again, also while an earlier one is in flight
StartUtterances == {"I'm Sam, red, rare"}

StartReplies == {"Okay."}

NextStart ==
    \/ \E r \in Reqs, c \in Calls : VoiceArrive(r, c, CallerOf[c])
    \/ \E r \in Reqs, c \in Calls, u \in StartUtterances :
          NoTurnInFlight(c) /\ GatherArrive(r, c, CallerOf[c], u)
    \/ \E r \in Reqs : Step(r, StartReplies)

SpecStart == Init /\ [][NextStart]_vars

Last(q) == q[Len(q)]

\* two calls at a time, the second one from the caller of the first or from
\* another caller; a call keeps the From it was first seen with
Callers == {"+15550001", "+15550002"}

SeenFrom(c) ==
    { greeted[c][i].from : i \in 1..Len(greeted[c]) }
      \cup { log[c][i].from : i \in 1..Len(log[c]) }
      \cup { req[r].from : r \in { q \in Reqs : req[q].callSid = c } }

FromOf(c) ==
    IF c = "CA1" THEN {CallerOf[c]}
    ELSE IF SeenFrom(c) # {} THEN SeenFrom(c) ELSE Callers

\* what the caller of each call says, on every turn
PairUtterance == [c \in AllCalls |-> IF c = "CA1" THEN "I'm Sam, red, rare"
                                                  ELSE "I'm Ana, blue, rare"]

PairReplies == {"Okay."}

\* the telephony service asks for speech when the last response told it to:
\* after the greeting and after every response with a gather, not after a hangup
Listening(c) ==
    /\ greeted[c] # <<>>
    /\ IF log[c] = <<>> THEN Last(greeted[c]).reply.gather
       ELSE Last(log[c]).reply.gather

NextPair ==
    \/ \E r \in Reqs, c \in AllCalls : \E p \in FromOf(c) :
          NotAnnounced(c) /\ VoiceArrive(r, c, p)
    \/ \E r \in Reqs, c \in AllCalls : \E p \in FromOf(c) :
          /\ NoTurnInFlight(c)
          /\ Listening(c)
          /\ GatherArrive(r, c, p, PairUtterance[c])
    \/ \E r \in Reqs : Step(r, PairReplies)

SpecPair == Init /\ [][NextPair]_vars

\* a long call: enough turns for the history to outgrow the six messages that
\* are sent to the generation service
MaxLongTurns == 4

LongUtterances == {"my name is Sam", "I like red", "rare please"}

LongReplies == {"Okay."}

NextLong ==
    \/ \E r \in Reqs, c \in Calls : NotAnnounced(c) /\ VoiceArrive(r, c, CallerOf[c])
    \/ \E r \in Reqs, c \in Calls, u \in LongUtterances :
          /\ NoTurnInFlight(c)
          /\ Listening(c)
          /\ Len(log[c]) < MaxLongTurns
          /\ GatherRequest(r, c, CallerOf[c], u)
    \/ \E r \in Reqs : Step(r, LongReplies)

SpecLong == Init /\ [][NextLong]_vars

\* turns of one call that overlap: an utterance is delivered while an earlier
\* turn of the call is still being handled
OverlapUtterances == {"my name is Sam", "I like red, rare"}

OverlapReplies == {"Okay."}

NextOverlap ==
    \/ \E r \in Reqs, c \in Calls : NotAnnounced(c) /\ VoiceArrive(r, c, CallerOf[c])
    \/ \E r \in Reqs, c \in Calls, u \in OverlapUtterances :
          greeted[c] # <<>> /\ GatherArrive(r, c, CallerOf[c], u)
    \/ \E r \in Reqs : Step(r, OverlapReplies)

SpecOverlap == Init /\ [][NextOverlap]_vars

(***************************************************************************)
(* Properties.                                                             *)
(***************************************************************************)
Entries(c) == { log[c][i] : i \in 1..Len(log[c]) }

AllThree(i) == Fields \subseteq DOMAIN i

EffectsOfCompletion == <<"updateSession", "saveCustomerData", "sendSteakInstructions">>

\* C1: when the /voice requests of a call have all been answered and there were
\* at least two of them, the call has exactly one session row and every
\* request got a session of that call.
C1_OneSessionPerCall ==
    \A c \in AllCalls :
        ( /\ \A r \in Reqs : ~(req[r].kind = "voice" /\ req[r].callSid = c)
          /\ Len(greeted[c]) >= 2
          /\ \A i \in 1..Len(greeted[c]) : greeted[c][i].outcome = "Greeted" )
        => /\ Cardinality(SessionRows(c)) = 1
           /\ \A i \in 1..Len(greeted[c]) : greeted[c][i].session.call_sid = c

\* C2: a turn without a collaborator failure ends Complete (closing message,
\* hangup) exactly when the three fields are present after its extraction, and
\* otherwise Continue with the generated text and another gather; a Complete
\* turn has by then updated the session, upserted the customer and triggered
\* the notification, in that order.
C2_OutcomeAndOrder ==
    \A c \in AllCalls : \A e \in Entries(c) :
        e.fault = "none" =>
            /\ e.outcome = "Complete" <=> AllThree(e.extractedInfo)
            /\ e.outcome # "Complete" =>
                  /\ e.outcome = "Continue"
                  /\ e.reply = [sent |-> TRUE, say |-> e.aiResponse,
                                gather |-> TRUE, hangup |-> FALSE]
                  /\ e.trace = <<"updateSession">>
            /\ e.outcome = "Complete" =>
                  /\ e.reply = [sent |-> TRUE,
                                say |-> Closing(e.extractedInfo.name),
                                gather |-> FALSE, hangup |-> TRUE]
                  /\ e.trace = EffectsOfCompletion

C2_Witness ==
    \E c \in AllCalls : \E e1, e2 \in Entries(c) :
        /\ e1.fault = "none" /\ e1.outcome = "Continue"
        /\ e2.fault = "none" /\ e2.outcome = "Complete"
        /\ e2.trace = EffectsOfCompletion

\* C3: a step of a turn that is loading the session or waiting for the
\* generation service never writes the session table; when the turn ends at
\* such a step (the load or the generation failed) its outcome is Failed, with
\* the apology and another gather.
C3_FailedTurnWritesNothing ==
    [][\A r \in Reqs :
          ( /\ req[r].kind = "gather"
            /\ req[r].pc \in {"getSession", "generate"}
            /\ req'[r] # req[r] )
          => /\ sessions' = sessions
             /\ req'[r].pc = "idle" =>
                   /\ Last(log'[req[r].callSid]).outcome = "Failed"
                   /\ Last(log'[req[r].callSid]).reply.say = Apology
                   /\ Last(log'[req[r].callSid]).reply.gather
                   /\ ~Last(log'[req[r].callSid]).reply.hangup]_vars

\* the generation fails on a turn that follows a successful turn; the session
\* holds the entries of the earlier turn only
C3_Witness ==
    \E c \in AllCalls :
        /\ Len(log[c]) = 2
        /\ log[c][1].outcome = "Continue"
        /\ log[c][2].fault = "generateResponse"
        /\ log[c][2].outcome = "Failed"
        /\ Persisted(c) = [history |-> log[c][1].conversationHistory,
                           partialRecord |-> log[c][1].extractedInfo]
        /\ Len(Persisted(c).history) = 2

FieldPresent(c, f) ==
    SessionRows(c) # {} /\ f \in DOMAIN Persisted(c).partialRecord

\* C4: a field that is present in the stored partialRecord of a call is present
\* after every step.
C4_FieldsStayPresent ==
    [][\A c \in AllCalls : \A f \in Fields :
          FieldPresent(c, f) => FieldPresent(c, f)']_vars

\* a successful later turn whose own messages do not mention the name, after a
\* turn that stored it
C4_Witness ==
    \E c \in AllCalls : \E i \in 2..Len(log[c]) :
        /\ log[c][i - 1].trace # <<>>
        /\ "name" \in DOMAIN log[c][i - 1].extractedInfo
        /\ log[c][i].trace # <<>>
        /\ "name" \notin DOMAIN extractInformation(
                              log[c][i].speech \o " " \o log[c][i].aiResponse)
        /\ FieldPresent(c, "name")

Upserts(c) == { i \in 1..Len(log[c]) : \E k \in 1..Len(log[c][i].trace) :
                                          log[c][i].trace[k] = "saveCustomerData" }

\* C5: over the turns of a call, none of which met a failure, the customer
\* record is upserted exactly once when a turn stored a complete partialRecord
\* (and not at all otherwise), on the first turn that did.
C5_UpsertExactlyOnce ==
    \A c \in AllCalls :
        (\A e \in Entries(c) : e.fault = "none" /\ ~e.smsFailed) =>
            /\ Cardinality(Upserts(c)) =
                  (IF \E e \in Entries(c) : AllThree(e.extractedInfo) THEN 1 ELSE 0)
            /\ \A i \in Upserts(c) : \A j \in 1..(i - 1) :
                  ~AllThree(log[c][j].extractedInfo)

Script == <<"Hi, my name is Sam", "I like blue", "Medium well please">>

\* the three scripted turns of a new call, each without a failure
Scripted(c) ==
    /\ Len(log[c]) = 3
    /\ \A i \in 1..3 : /\ log[c][i].speech = Script[i]
                       /\ log[c][i].fault = "none"
                       /\ ~log[c][i].smsFailed
    /\ log[c][1].before = [history |-> <<>>, partialRecord |-> <<>>]

\* what the scenario says of the three turns, and of the store when the third
\* turn has answered and no further turn of the call has begun
ScriptedResult(c) ==
    /\ log[c][1].outcome = "Continue"
    /\ log[c][1].extractedInfo = [name |-> "Sam"]
    /\ log[c][2].outcome = "Continue"
    /\ log[c][2].extractedInfo = [name |-> "Sam", favoriteColor |-> "blue"]
    /\ log[c][3].outcome = "Complete"
    /\ log[c][3].extractedInfo =
          [name |-> "Sam", favoriteColor |-> "blue", steakPreference |-> "medium well"]
    /\ \A i \in 1..3 : "updateSession" = log[c][i].trace[1]
    /\ "saveCustomerData" = log[c][3].trace[2]
    /\ Cardinality({ i \in 1..3 : \E k \in 1..Len(log[c][i].trace) :
                        log[c][i].trace[k] = "sendSteakInstructions" }) = 1
    /\ Len(sms) = 1
    /\ NoTurnInFlight(c) =>
          /\ Persisted(c).partialRecord = log[c][3].extractedInfo
          /\ \E k \in 1..Len(customers) :
                customers[k] = [phone_number |-> CallerOf[c], name |-> "Sam",
                                favorite_color |-> "blue",
                                steak_preference |-> "medium well"]

\* the words the extractor looks for: the cues of the name patterns, the
\* colours and the doneness words
Vocabulary ==
    {"my name is", "i'm", "this is"}
      \cup { colors[k] : k \in 1..Len(colors) }
      \cup { steakPrefs[k] : k \in 1..Len(steakPrefs) }

MentionsNothing(t) == \A w \in Vocabulary : ~Includes(toLowerCase(t), w)

\* C6 as stated: the scripted call ends as the scenario says, whatever the
\* generation service answers.
C6_ScenarioAnyReply ==
    \A c \in Calls : Scripted(c) => ScriptedResult(c)

\* C6: the scripted call ends as the scenario says when the generated replies
\* contain no name cue, colour or doneness word.
C6_ScenarioNeutralReplies ==
    \A c \in Calls :
        (Scripted(c) /\ \A i \in 1..3 : MentionsNothing(log[c][i].aiResponse))
        => ScriptedResult(c)

C6_Witness ==
    \E c \in Calls :
        /\ Scripted(c)
        /\ \A i \in 1..3 : MentionsNothing(log[c][i].aiResponse)
        /\ log[c][3].outcome = "Complete"
        /\ NoTurnInFlight(c)
        /\ Len(customers) = 1
        /\ Len(sms) = 1

\* C7: every request that met a failure was answered with the apology and
\* another gather, and not with a hangup.
C7_EveryFailureAnswered ==
    \A c \in AllCalls :
        \A e \in Entries(c) \cup { greeted[c][i] : i \in 1..Len(greeted[c]) } :
            e.fault # "none" =>
                /\ e.reply.sent
                /\ e.reply.say = Apology
                /\ e.reply.gather
                /\ ~e.reply.hangup

\* C8: the step of a turn at the notification that delivers no message (the
\* delivery failed) ends the turn with Complete (closing message, hangup, no
\* failure recorded), after one notification attempt, and changes neither the
\* session table nor the customer table.
C8_NotificationFailureSwallowed ==
    [][\A r \in Reqs : \A c \in AllCalls :
          ( /\ req[r].kind = "gather" /\ req[r].pc = "notify"
            /\ req[r].callSid = c
            /\ req'[r] # req[r]
            /\ sms' = sms )
          => /\ req'[r].pc = "idle"
             /\ Last(log'[c]).outcome = "Complete"
             /\ Last(log'[c]).fault = "none"
             /\ Last(log'[c]).reply =
                   [sent |-> TRUE, say |-> Closing(req[r].extractedInfo.name),
                    gather |-> FALSE, hangup |-> TRUE]
             /\ Last(log'[c]).trace = EffectsOfCompletion
             /\ sessions' = sessions
             /\ customers' = customers
             /\ Persisted(c)' =
                   [history |-> req[r].conversationHistory,
                    partialRecord |-> req[r].extractedInfo]
             /\ \E k \in 1..Len(customers') :
                   /\ customers'[k].phone_number = req[r].from
                   /\ customers'[k].name = req[r].extractedInfo.name]_vars

C8_Witness ==
    \E c \in AllCalls : \E e \in Entries(c) :
        e.smsFailed /\ e.outcome = "Complete" /\ sms = <<>> /\ customers # <<>>

\* C9: a transcript that mentions "medium rare" yields the steak preference
\* "medium rare".
C9_MediumRare ==
    Includes(toLowerCase(conversation), "medium rare")
    => /\ "steakPreference" \in DOMAIN info
       /\ info.steakPreference = "medium rare"

\* C10 as stated: a transcript that contains "my name is Ana" yields the name
\* "Ana".
C10_AnaAnywhere ==
    Includes(conversation, "my name is Ana")
    => ("name" \in DOMAIN info /\ info.name = "Ana")

\* the places of the transcript where "my name is " (in any letter case) is
\* followed by a word character
NameCues ==
    { i \in 1..(Len(conversation) - 11) :
        /\ toLowerCase(SubSeq(conversation, i, i + 10)) = "my name is "
        /\ IsWordChar(CharAt(conversation, i + 11)) }

FirstCueIsAna ==
    /\ NameCues # {}
    /\ SubSeq(conversation, Min(NameCues) + 11, Min(NameCues) + 13) = "Ana"
    /\ \/ Min(NameCues) + 13 = Len(conversation)
       \/ ~IsWordChar(CharAt(conversation, Min(NameCues) + 14))

\* C10: a transcript in which the first "my name is " cue is followed by the
\* word Ana yields the name "Ana", whatever else surrounds it.
C10_FirstCueAna ==
    FirstCueIsAna => ("name" \in DOMAIN info /\ info.name = "Ana")

\* other cues before it, another "my name is" after it
C10_Witness ==
    /\ conversation = "I'm Cy my name is Ana my name is Bob"
    /\ FirstCueIsAna
    /\ info.name = "Ana"

\* the places in the colour list of the colours the transcript mentions
MentionedColors ==
    { k \in 1..Len(colors) : Includes(toLowerCase(conversation), colors[k]) }

\* C11: a transcript that mentions two or more colours of the vocabulary yields
\* as favourite colour the one that comes first in the vocabulary list,
\* wherever the colours stand in the text.
C11_EarliestListedColor ==
    Cardinality(MentionedColors) >= 2
    => /\ "favoriteColor" \in DOMAIN info
       /\ info.favoriteColor = colors[Min(MentionedColors)]

\* blue is said before red, and red comes first in the list
C11_Witness ==
    /\ conversation = "blue red"
    /\ MentionedColors = {1, 2}
    /\ info.favoriteColor = "red"

Columns == {"name", "favorite_color", "steak_preference"}

\* the requests that have issued the upsert: answered ones and ones in flight
Upserting ==
    UNION { Entries(c) : c \in AllCalls }
      \cup { req[r] : r \in Reqs }

\* C12: every row of the customer table holds a name, a favourite colour and a
\* steak preference, none of them null; and a turn that has issued the upsert
\* extracted all three fields.
C12_RecordsComplete ==
    /\ \A k \in 1..Len(customers) : \A col \in Columns :
          customers[k][col] \notin {Null, ""}
    /\ \A e \in Upserting :
          (\E k \in 1..Len(e.trace) : e.trace[k] = "saveCustomerData")
          => /\ AllThree(e.extractedInfo)
             /\ \A f \in Fields : e.extractedInfo[f] \notin {Null, ""}

\* a record was written, and turns before it had stored partial records only
C12_Witness ==
    \E c \in AllCalls :
        /\ Len(customers) = 1
        /\ Len(log[c]) = 3
        /\ ~AllThree(log[c][1].extractedInfo) /\ log[c][1].trace = <<"updateSession">>
        /\ ~AllThree(log[c][2].extractedInfo) /\ log[c][2].trace = <<"updateSession">>
        /\ log[c][3].outcome = "Complete"

\* the rows of the customer table of a caller, and those of all other callers
RecordsOf(p) == { k \in 1..Len(customers) : customers[k].phone_number = p }

RecordsOfOthers(p) ==
    { customers[k] : k \in { j \in 1..Len(customers) : customers[j].phone_number # p } }

Completed(c) == \E e \in Entries(c) : e.outcome = "Complete"

\* C13: the customer table never holds two rows of one caller; an upsert leaves
\* exactly one row of its caller, holding the values of the turn that issued
\* it (so after two calls of one caller the row is that of the later upsert),
\* and leaves the rows of all other callers as they were.
C13_LastUpsertWins ==
    /\ [](\A p \in Callers : Cardinality(RecordsOf(p)) <= 1)
    /\ [][\A r \in Reqs : \A p \in Callers :
            ( /\ req[r].pc = "save" /\ req'[r].pc = "notify"
              /\ req[r].from = p )
            => /\ \E k \in 1..Len(customers') :
                     /\ RecordsOf(p)' = {k}
                     /\ customers'[k] =
                           [phone_number |-> p,
                            name |-> req[r].extractedInfo.name,
                            favorite_color |-> req[r].extractedInfo.favoriteColor,
                            steak_preference |-> req[r].extractedInfo.steakPreference]
               /\ RecordsOfOthers(p)' = RecordsOfOthers(p)]_vars

\* two calls of one caller have completed with different values, the second
\* after the first: the caller's only row is that of the second call
C13_Witness ==
    /\ Completed("CA1") /\ Completed("CA2")
    /\ SeenFrom("CA1") = SeenFrom("CA2")
    /\ Last(log["CA1"]).before.partialRecord = <<>>
    /\ Last(log["CA2"]).before.partialRecord = <<>>
    /\ Len(sms) = 2 /\ sms[1].name = "Sam" /\ sms[2].name = "Ana"
    /\ Len(customers) = 1
    /\ customers[1].name = "Ana"
    /\ customers[1].favorite_color = "blue"

\* the history a stored session holds; none when there is no session
HistoryOf(x) == IF x = Undefined THEN <<>> ELSE x.history

\* what the store holds for call c after its i-th turn: what the next turn
\* found or, after the latest turn, what the store holds now
AfterTurn(c, i) == IF i < Len(log[c]) THEN log[c][i + 1].before ELSE Persisted(c)

TurnEntries(e) ==
    <<[role |-> "user", content |-> e.speech],
      [role |-> "assistant", content |-> e.aiResponse]>>

\* C14: over the turns of a call, taken one after another, a turn that ended
\* Continue or Complete has extended the stored history by its utterance and
\* its reply, in that order, and a turn that ended Failed has left the stored
\* history as it was.
C14_HistoryGrowsByTurns ==
    \A c \in AllCalls :
        NoTurnInFlight(c) =>
            \A i \in 1..Len(log[c]) :
                HistoryOf(AfterTurn(c, i)) =
                    IF log[c][i].outcome = "Failed"
                    THEN HistoryOf(log[c][i].before)
                    ELSE HistoryOf(log[c][i].before) \o TurnEntries(log[c][i])

\* the promise of getSession was rejected
LoadRejected(e) == e.fault = "getSession"

\* what the handler does for a turn that fails: the apology and another
\* gather, nothing written
FailedCleanly(e) ==
    /\ e.outcome = "Failed"
    /\ e.reply = [sent |-> TRUE, say |-> Apology, gather |-> TRUE, hangup |-> FALSE]
    /\ e.trace = <<>>

\* C15: for a call that has no session row, the load of every turn was
\* rejected by getSession, the turn ended Failed with the apology and another
\* gather, and it wrote neither a session row nor a customer row.
C15_LoadRejectedWithoutSession ==
    \A c \in AllCalls :
        SessionRows(c) = {} =>
            /\ \A e \in Entries(c) : LoadRejected(e) /\ FailedCleanly(e)
            /\ Entries(c) # {} => RecordsOf(CallerOf[c]) = {}

\* C16: when getOrCreateSession runs its SELECT for a call that has a session
\* row, the step writes nothing to the session table, so the stored history
\* and partialRecord of the call stay as they are and no row is added; unless
\* the store fails, the request is answered at that step with the greeting and
\* has got the stored session of the call.
C16_GetOrCreateOnExisting ==
    [][\A r \in Reqs : \A c \in AllCalls :
          ( /\ req[r].kind = "voice" /\ req[r].pc = "select"
            /\ req[r].callSid = c
            /\ SessionRows(c) # {}
            /\ req'[r] # req[r] )
          => /\ sessions' = sessions
             /\ req'[r].pc = "idle"
             /\ faults' = faults =>
                   /\ Last(greeted'[c]).outcome = "Greeted"
                   /\ Last(greeted'[c]).trace = <<>>
                   /\ Last(greeted'[c]).session = SelectSession(c)
                   /\ JSONparse(Last(greeted'[c]).session.conversation_state)
                        = Persisted(c).history
                   /\ JSONparse(Last(greeted'[c]).session.collected_data)
                        = Persisted(c).partialRecord]_vars

\* the call start is delivered again after a turn of the call was stored: the
\* request got the session with the turn's entries and inserted nothing
C16_Witness ==
    \E c \in AllCalls :
        /\ Len(greeted[c]) = 2
        /\ greeted[c][1].trace = <<"insert">>
        /\ greeted[c][2].trace = <<>>
        /\ greeted[c][2].outcome = "Greeted"
        /\ Len(JSONparse(greeted[c][2].session.conversation_state)) = 2
        /\ Cardinality(SessionRows(c)) = 1
        /\ Len(Persisted(c).history) = 2

\* the history a turn works on: what it loaded, and its utterance appended
Appended(e) ==
    Append(JSONparse(e.session.conversation_state),
           [role |-> "user", content |-> e.speech])

\* the most recent min(6, n) entries of a history of n entries
Window(h) == SubSeq(h, Len(h) - Min({6, Len(h)}) + 1, Len(h))

\* the turns whose generation request was answered
Generated(c) == { i \in 1..Len(log[c]) : log[c][i].aiResponse # Null }

\* C17: on every turn the messages sent to the generation service are the most
\* recent min(6, n) entries of the history with the utterance appended, never
\* more than six, followed by the latest utterance; the turn extracts from the
\* contents of all entries of the whole history with the reply appended, and
\* that whole history is what its update stores.  (A turn is logged once and
\* its entry never changes: the extraction is stated of the latest entry.)
C17_WindowAndFullHistory ==
    \A c \in AllCalls : \A i \in Generated(c) :
        LET e == log[c][i]
            full == Append(Appended(e), [role |-> "assistant", content |-> e.aiResponse])
        IN /\ e.context = Window(Appended(e)) \o <<[role |-> "user", content |-> e.speech]>>
           /\ Len(e.context) - 1 <= 6
           /\ e.conversationHistory = full
           /\ i = Len(log[c]) => e.extractedInfo = extractInformation(JoinContents(full))
           /\ (e.trace # <<>> /\ NoTurnInFlight(c)) => HistoryOf(AfterTurn(c, i)) = full

\* the fourth turn of a call: seven entries after the utterance, six of them
\* sent; the name, said in the entry that was not sent, is extracted, and all
\* eight entries are stored
C17_Witness ==
    \E c \in AllCalls :
        /\ Len(log[c]) = 4
        /\ Generated(c) = 1..4
        /\ log[c][1].speech = "my name is Sam"
        /\ log[c][2].speech = "I like red"
        /\ log[c][3].speech = "I like red"
        /\ log[c][4].speech = "rare please"
        /\ log[c][4].outcome = "Complete"
        /\ Len(Appended(log[c][4])) = 7
        /\ Len(log[c][4].context) = 7
        /\ log[c][4].context[1] = [role |-> "assistant", content |-> "Okay."]
        /\ log[c][4].extractedInfo.name = "Sam"
        /\ NoTurnInFlight(c)
        /\ Len(Persisted(c).history) = 8

\* the session rows of a call, in table order
RowsOf(c) == SelectSeq(sessions, LAMBDA row : row.call_sid = c)

\* the requests of a call keep still in a step
NoStepOf(c) ==
    \A r \in Reqs : (req[r].callSid = c \/ req'[r].callSid = c) => req'[r] = req[r]

\* C18: a step taken by a request of one call (the arrival of a request, a
\* step of getOrCreateSession, of a turn or of its update) leaves the session
\* rows of every other call, with their history and partialRecord, as they are.
C18_SessionsIndependent ==
    [][\A c \in AllCalls :
          NoStepOf(c) => /\ RowsOf(c)' = RowsOf(c)
                         /\ Persisted(c)' = Persisted(c)]_vars

\* a turn of CA1 has loaded its session and not yet stored it, while a turn of
\* CA2 has stored its own: each call holds what its own turns wrote
C18_Witness ==
    \E r, q \in Reqs :
        /\ req[r].kind = "gather" /\ req[r].callSid = "CA1" /\ req[r].pc = "update"
        /\ req[q].kind = "gather" /\ req[q].callSid = "CA2" /\ req[q].pc = "save"
        /\ Persisted("CA1") = [history |-> <<>>, partialRecord |-> <<>>]
        /\ Persisted("CA2") = [history |-> req[q].conversationHistory,
                               partialRecord |-> req[q].extractedInfo]
        /\ Len(Persisted("CA2").history) = 2

Updated(e) == e.trace # <<>> /\ e.trace[1] = "updateSession"

\* turns i and j of a call met no failure and loaded the same stored session:
\* both loaded it before either stored its own
Overlapped(c, i, j) ==
    /\ i # j
    /\ log[c][i].fault = "none" /\ log[c][j].fault = "none"
    /\ log[c][i].session # Undefined
    /\ log[c][i].session = log[c][j].session

\* C19: the update of a turn replaces the stored history and partialRecord of
\* its call by the turn's own, whatever the row holds by then; two turns of a
\* call that both loaded the session before either stored it have both
\* updated it, neither ended Failed, and when they are the only turns of the
\* call the store holds the history and record of one of them, whole, and
\* none of the other's entries.
C19_LastUpdateWins ==
    /\ [][\A r \in Reqs : \A c \in AllCalls :
            ( /\ req[r].kind = "gather" /\ req[r].pc = "update"
              /\ req[r].callSid = c
              /\ req'[r] # req[r]
              /\ faults' = faults )
            => Persisted(c)' = [history |-> req[r].conversationHistory,
                                partialRecord |-> req[r].extractedInfo]]_vars
    /\ [](\A c \in AllCalls : \A i, j \in 1..Len(log[c]) :
            Overlapped(c, i, j) =>
                /\ Updated(log[c][i]) /\ Updated(log[c][j])
                /\ log[c][i].outcome # "Failed" /\ log[c][j].outcome # "Failed"
                /\ (Len(log[c]) = 2 /\ NoTurnInFlight(c)) =>
                      \E k \in {i, j} :
                          Persisted(c) =
                              [history |-> log[c][k].conversationHistory,
                               partialRecord |-> log[c][k].extractedInfo])

\* the turns "my name is Sam" and "I like red, rare" overlapped: the store
\* holds the two entries and the record of one turn only, the name is lost
C19_Witness ==
    \E c \in AllCalls :
        /\ Len(log[c]) = 2
        /\ Overlapped(c, 1, 2)
        /\ NoTurnInFlight(c)
        /\ \E k \in {1, 2} :
              /\ log[c][k].speech = "my name is Sam"
              /\ log[c][3 - k].speech = "I like red, rare"
              /\ Persisted(c).history = log[c][3 - k].conversationHistory
        /\ Len(Persisted(c).history) = 2
        /\ "name" \notin DOMAIN Persisted(c).partialRecord

\* C20: the partialRecord stored for a call is what the extractor returns for
\* the contents, joined with single spaces, of all entries of the history
\* stored for that call.
C20_RecordMatchesHistory ==
    \A c \in AllCalls :
        SessionRows(c) # {} =>
            Persisted(c).partialRecord =
                extractInformation(JoinContents(Persisted(c).history))

\* two turns of a call have updated the session one after the other: the
\* stored record is complete, from a history of four entries
C20_Witness ==
    \E c \in AllCalls :
        /\ Len(log[c]) = 2
        /\ Updated(log[c][1]) /\ Updated(log[c][2])
        /\ NoTurnInFlight(c)
        /\ Len(Persisted(c).history) = 4
        /\ Persisted(c).partialRecord =
              [name |-> "Sam", favoriteColor |-> "red", steakPreference |-> "rare"]

====
